---- MODULE Spec2Model ----
(***************************************************************************)
(* Model of pkg/stanza/fileconsumer/internal/reader/reader.go: one Reader  *)
(* over one file.  ReadToEnd is modelled at the granularity of its scan    *)
(* loops: ReadToEndBegin (lock, byte source, seek), one HeaderStep per     *)
(* iteration of readHeader's loop, one ContentStep per iteration of        *)
(* readContents' loop, and ReadToEndExit (the deferred functions).         *)
(* The file is a sequence of bytes; the environment may append to it and   *)
(* truncate it.  The sink (emitFunc) is recorded in the history variable   *)
(* sinkCalls.                                                              *)
(***************************************************************************)
EXTENDS Integers, Sequences, FiniteSets, TLC

\* ---------------------------------------------------------------- bounds
MaxTokens == 2
MaxBatch == 2
MaxCalls == 2
MaxMods == 1
\* reader.fingerprintSize
FingerprintSize == 3

\* ---------------------------------------------------------------- bytes
\* A line end, a content byte, the byte that starts a header line, a byte the
\* decoder rejects, and the header of a gzip member.
NL == "nl"
A == "a"
H == "h"
X == "x"
GZ == "gz"

NoTok == 0 - 1

VARIABLES
    \* configuration of the Reader (fixed at construction)
    compression, maxBatchSize, deleteAtEOF, acquireFSLock,
    \* Metadata
    Fingerprint, Offset, RecordNum, HeaderFinalized, FileType,
    \* Reader
    file, headerReader, needsUpdateFingerprint, reader, gzBase, gzSize, srcPos,
    \* one ReadToEnd call
    pc, ctxDone, lockHeld, gzDefer, currentEOF, sPos, sSrc,
    numTokensBatched, tokenBodies, tokenOffsets,
    \* environment
    fileBytes, fileExists,
    \* history
    sinkCalls, headerSeen, calls, mods, panicked, closed, validateResult,
    entryOffset, entryRecordNum, entrySize, gzCreated, contentStart, contentRan,
    callClean, eohTok, refresh

cfgVars == <<compression, maxBatchSize, deleteAtEOF, acquireFSLock>>
metaVars == <<Fingerprint, Offset, RecordNum, HeaderFinalized, FileType>>
readerVars == <<file, headerReader, needsUpdateFingerprint, reader, gzBase, gzSize, srcPos>>
callVars == <<pc, ctxDone, lockHeld, gzDefer, currentEOF, sPos, sSrc,
              numTokensBatched, tokenBodies, tokenOffsets>>
envVars == <<fileBytes, fileExists>>
histVars == <<sinkCalls, headerSeen, calls, mods, panicked, closed, validateResult,
              entryOffset, entryRecordNum, entrySize, gzCreated, contentStart,
              contentRan, callClean, eohTok, refresh>>
vars == <<cfgVars, metaVars, readerVars, callVars, envVars, histVars>>

Min(a, b) == IF a < b THEN a ELSE b

Max(a, b) == IF a > b THEN a ELSE b

\* ------------------------------------------------------------ the file
\* A complete line of a plain file: content, header line, undecodable line.
TokenSet == {<<A, NL>>, <<H, NL>>, <<X, A, NL>>}

RECURSIVE FilesUpTo(_)
FilesUpTo(n) ==
    IF n = 0 THEN {<<>>}
    ELSE FilesUpTo(n - 1) \cup {f \o t : f \in FilesUpTo(n - 1), t \in TokenSet}

PlainFiles == FilesUpTo(MaxTokens)

RECURSIVE PayloadsUpTo(_)
PayloadsUpTo(n) ==
    IF n = 0 THEN {<<>>}
    ELSE PayloadsUpTo(n - 1) \cup {f \o <<b>> : f \in PayloadsUpTo(n - 1), b \in {A, H, X}}

\* A gzip file: the member header, then the compressed payload.
GzFiles == {<<GZ>> \o p : p \in PayloadsUpTo(MaxTokens)}

\* compress/gzip: a stream is readable only if it starts with a member header
\* (an empty section yields io.EOF, anything else gzip.ErrHeader).
GzipHeaderOK(raw) == Len(raw) > 0 /\ raw[1] = GZ

\* compress/gzip: the decompressed stream of a (multi-member) gzip section.
\* Every payload byte stands for one line, so the decompressed length differs
\* from the compressed one.
RECURSIVE Gunzip(_)
Gunzip(raw) ==
    IF raw = <<>> THEN <<>>
    ELSE (IF raw[1] = GZ THEN <<>> ELSE <<raw[1], NL>>) \o Gunzip(Tail(raw))

\* io.NewSectionReader(r.file, r.Offset, currentEOF): the window of n bytes
\* that starts at base, as far as the file has them.
Section(bytes, base, n) == SubSeq(bytes, base + 1, Min(Len(bytes), base + n))

\* ------------------------------------------------------------ scanner
\* scanner.Scanner over a byte source, split at line ends.  p is the source
\* position (0-based) after the last token returned.
HasToken(src, p) == \E e \in (p + 1)..Len(src) : src[e] = NL

TokenEnd(src, p) ==
    CHOOSE e \in (p + 1)..Len(src) :
        src[e] = NL /\ \A k \in (p + 1)..(e - 1) : src[k] # NL

TokenBytes(src, p) == SubSeq(src, p + 1, TokenEnd(src, p) - 1)

\* How far the scanner may have read the source when it returns the token
\* ending at e: nothing more if the token was already buffered, else any
\* amount from the token's end to the end of the source.
ReadAhead(src, pos, e) == IF e <= pos THEN {pos} ELSE e..Len(src)

\* r.decoder: a line holding the byte X does not decode.
Decodable(tok) == \A i \in 1..Len(tok) : tok[i] # X

\* header.Reader.Process: a line starting with H is a header line, any other
\* line is header.ErrEndOfHeader.
IsHeaderLine(tok) == Len(tok) > 0 /\ tok[1] = H

\* ------------------------------------------------------------ fingerprint
\* fingerprint.NewFromFile: the first FingerprintSize bytes of the file.
NewFromFile(bytes) == SubSeq(bytes, 1, Min(FingerprintSize, Len(bytes)))

\* (f *Fingerprint) StartsWith(old): old is a prefix of f.  An empty old
\* fingerprint matches nothing, which is why line 354 tests Len() > 0 first.
StartsWith(f, old) ==
    /\ Len(old) > 0
    /\ Len(old) <= Len(f)
    /\ SubSeq(f, 1, Len(old)) = old

\* A refresh that adopts whatever it re-derives.
updateFingerprintUnchecked(fp, open, err, bytes) ==
    IF ~open THEN fp
    ELSE IF err THEN fp
    ELSE NewFromFile(bytes)

\* (r *Reader) updateFingerprint, lines 347-357: the value r.Fingerprint has
\* afterwards.  err: fingerprint.NewFromFile failed.
updateFingerprint(fp, open, err, bytes) ==
    IF ~open THEN fp
    ELSE IF err THEN fp
    ELSE IF Len(fp) > 0 /\ ~StartsWith(NewFromFile(bytes), fp) THEN fp
    ELSE NewFromFile(bytes)

\* ------------------------------------------------------------ construction
\* The byte source ReadToEnd selects, lines 73-101.
GzipMode == compression = "gzip" \/ (compression = "auto" /\ FileType = ".gz")

EmptyBodies == [i \in 1..maxBatchSize |-> NoTok]

\* The token identity recorded for a sink call: the byte source's section
\* base and the token's start position in the source.
TokId(p) == <<IF reader = "gzip" THEN gzBase ELSE 0, p>>

Init ==
    /\ compression \in {"", "gzip", "auto"}
    /\ FileType \in (IF compression = "" THEN {""}
                     ELSE IF compression = "gzip" THEN {".gz"}
                     ELSE {"", ".gz"})
    /\ maxBatchSize \in 0..MaxBatch
    /\ deleteAtEOF \in BOOLEAN
    /\ acquireFSLock \in BOOLEAN
    /\ headerReader \in BOOLEAN
    /\ fileBytes \in (IF FileType = ".gz" THEN GzFiles ELSE PlainFiles)
    /\ fileExists = TRUE
    /\ Fingerprint \in {SubSeq(fileBytes, 1, k) : k \in 0..Min(FingerprintSize, Len(fileBytes))}
    /\ Offset = 0
    /\ RecordNum = 0
    /\ HeaderFinalized = FALSE
    /\ file = TRUE
    /\ needsUpdateFingerprint = FALSE
    /\ reader = "none"
    /\ gzBase = 0
    /\ gzSize = 0
    /\ srcPos = 0
    /\ pc = "idle"
    /\ ctxDone = FALSE
    /\ lockHeld = FALSE
    /\ gzDefer = FALSE
    /\ currentEOF = 0
    /\ sPos = 0
    /\ sSrc = 0
    /\ numTokensBatched = 0
    /\ tokenBodies = <<>>
    /\ tokenOffsets = <<>>
    /\ sinkCalls = <<>>
    /\ headerSeen = {}
    /\ calls = 0
    /\ mods = 0
    /\ panicked = FALSE
    /\ closed = FALSE
    /\ validateResult = "none"
    /\ entryOffset = 0
    /\ entryRecordNum = 0
    /\ entrySize = 0
    /\ gzCreated = FALSE
    /\ contentStart = 0
    /\ contentRan = FALSE
    /\ callClean = TRUE
    /\ eohTok = <<>>
    /\ refresh = "none"

\* ------------------------------------------------------------ ReadToEnd
\* readContents, lines 220-226: the scanner and the batch buffers.
StartContents(off, src) ==
    /\ pc' = "content"
    /\ sPos' = off
    /\ sSrc' = src
    /\ numTokensBatched' = 0
    /\ tokenBodies' = EmptyBodies
    /\ tokenOffsets' = [i \in 1..(maxBatchSize + 1) |-> IF i = 1 THEN off ELSE 0]
    /\ contentStart' = src
    /\ contentRan' = TRUE

\* An unlock that is skipped on the early returns of ReadToEnd.
lockLeakedOnEarlyReturn(acquired, early) == acquired /\ early

\* The file lock once ReadToEnd has returned, lines 66-71: unlockFile is
\* deferred as soon as tryLockFile succeeded, so every return releases it.
\* acquired: tryLockFile succeeded; early: the return is one of lines 77-105.
lockAfterReturn(acquired, early) == FALSE

\* The call-local state once ReadToEnd has returned.
ResetCall ==
    /\ ctxDone' = FALSE
    /\ gzDefer' = FALSE
    /\ currentEOF' = 0
    /\ sPos' = 0
    /\ sSrc' = 0
    /\ numTokensBatched' = 0
    /\ tokenBodies' = <<>>
    /\ tokenOffsets' = <<>>

\* ReadToEnd up to the first scan, lines 65-120.  lockOK: tryLockFile
\* succeeded; statOK: r.file.Stat succeeded; seekOK: r.file.Seek succeeded.
ReadToEndBegin(lockOK, statOK, seekOK) ==
    /\ pc = "idle"
    /\ ~closed
    /\ calls < MaxCalls
    /\ calls' = calls + 1
    /\ entryOffset' = Offset
    /\ entryRecordNum' = RecordNum
    /\ entrySize' = Len(fileBytes)
    /\ callClean' = TRUE
    /\ validateResult' = "none"
    /\ UNCHANGED <<cfgVars, envVars, Fingerprint, RecordNum, HeaderFinalized, FileType,
                   file, headerReader, needsUpdateFingerprint,
                   sinkCalls, headerSeen, mods, panicked, closed, eohTok>>
    /\ refresh' = "none"
    /\ IF acquireFSLock /\ ~lockOK
       THEN \* line 68
            /\ ResetCall
            /\ lockHeld' = lockAfterReturn(FALSE, TRUE)
            /\ gzCreated' = FALSE
            /\ contentRan' = FALSE
            /\ UNCHANGED <<Offset, reader, gzBase, gzSize, srcPos, pc, contentStart>>
       ELSE IF GzipMode /\ ~(file /\ statOK /\ GzipHeaderOK(Section(fileBytes, Offset, Len(fileBytes))))
       THEN \* lines 77, 89: createGzipReader failed
            /\ ResetCall
            /\ lockHeld' = lockAfterReturn(acquireFSLock, TRUE)
            /\ gzCreated' = FALSE
            /\ contentRan' = FALSE
            /\ UNCHANGED <<Offset, reader, gzBase, gzSize, srcPos, pc, contentStart>>
       ELSE IF ~(file /\ seekOK)
       THEN \* line 105; the deferred Offset assignment of lines 81-83 runs
            /\ ResetCall
            /\ lockHeld' = lockAfterReturn(acquireFSLock, TRUE)
            /\ gzCreated' = GzipMode
            /\ reader' = IF GzipMode THEN "gzip" ELSE "file"
            /\ gzBase' = IF GzipMode THEN Offset ELSE gzBase
            /\ gzSize' = IF GzipMode THEN Len(fileBytes) ELSE gzSize
            /\ srcPos' = IF GzipMode THEN 0 ELSE srcPos
            /\ Offset' = IF GzipMode THEN Len(fileBytes) ELSE Offset
            /\ contentRan' = FALSE
            /\ UNCHANGED <<pc, contentStart>>
       ELSE /\ reader' = IF GzipMode THEN "gzip" ELSE "file"
            /\ gzBase' = IF GzipMode THEN Offset ELSE gzBase
            /\ gzSize' = IF GzipMode THEN Len(fileBytes) ELSE gzSize
            /\ srcPos' = IF GzipMode THEN 0 ELSE Offset
            /\ gzDefer' = GzipMode
            /\ gzCreated' = GzipMode
            /\ currentEOF' = IF GzipMode THEN Len(fileBytes) ELSE 0
            /\ lockHeld' = acquireFSLock
            /\ ctxDone' = FALSE
            /\ UNCHANGED Offset
            /\ IF headerReader
               THEN \* readHeader, line 149
                    /\ pc' = "header"
                    /\ sPos' = Offset
                    /\ sSrc' = srcPos'
                    /\ contentRan' = FALSE
                    /\ UNCHANGED <<numTokensBatched, tokenBodies, tokenOffsets, contentStart>>
               ELSE StartContents(Offset, srcPos')

\* The bytes r.reader yields: the file, or the decompressed section.
Source == IF reader = "gzip" THEN Gunzip(Section(fileBytes, gzBase, gzSize)) ELSE fileBytes

\* A Read that asks for a refresh whatever the length of the fingerprint.
needsUpdateAfterAnyRead(need, fpLen, n) == IF n = 0 THEN need ELSE TRUE

\* (r *Reader) Read, lines 306-316: needsUpdateFingerprint after a read of n
\* bytes.
needsUpdateAfterRead(need, fpLen, n) ==
    IF n = 0 THEN need
    ELSE IF ~need /\ fpLen < FingerprintSize THEN TRUE
    ELSE need

\* The scanner reads the source up to q.
Read(q) ==
    /\ srcPos' = q
    /\ needsUpdateFingerprint' =
           needsUpdateAfterRead(needsUpdateFingerprint, Len(Fingerprint), q - srcPos)

\* s.Scan() found no token: the scanner has read whatever was left.
ReadToEOF == Read(Max(srcPos, Len(Source)))

\* A scanner position that forgets the offset the scanner started at.
PosAfterTokenRelative == TokenEnd(Source, sSrc) - sSrc

\* s.Pos() after the scanner returned the token that starts at sSrc.
PosAfterToken == sPos + (TokenEnd(Source, sSrc) - sSrc)

\* (r *Reader) delete, lines 275-280, with close, lines 290-303.
\* removeOK: os.Remove succeeded.
Delete(removeOK) ==
    /\ file' = FALSE
    /\ fileExists' = IF removeOK THEN FALSE ELSE fileExists

\* ------------------------------------------------------------ readHeader
\* A ReadToEnd that goes on to readContents whatever readHeader returned.
pcContentAfterHeaderStop == "content"

\* Where ReadToEnd goes when readHeader returned true, lines 115-117: it
\* returns.
pcAfterHeaderStop == "exit"

\* lines 153-157
HeaderCancel ==
    /\ pc = "header"
    /\ ctxDone
    /\ pc' = pcAfterHeaderStop
    /\ callClean' = FALSE
    /\ validateResult' = "none"
    /\ UNCHANGED <<cfgVars, metaVars, readerVars, envVars,
                   ctxDone, lockHeld, gzDefer, currentEOF, sPos, sSrc,
                   numTokensBatched, tokenBodies, tokenOffsets,
                   sinkCalls, headerSeen, calls, mods, panicked, closed,
                   entryOffset, entryRecordNum, entrySize, gzCreated, contentStart,
                   contentRan, eohTok, refresh>>

\* lines 159-171: the scan yields no token.
HeaderScanEnd(out, removeOK) ==
    /\ pc = "header"
    /\ ~ctxDone
    /\ out = "eof" => ~HasToken(Source, sSrc)
    /\ IF out = "eof" THEN ReadToEOF ELSE Read(srcPos)
    /\ IF out = "eof" /\ deleteAtEOF
       THEN Delete(removeOK)
       ELSE UNCHANGED <<file, fileExists>>
    /\ pc' = pcAfterHeaderStop
    /\ callClean' = (callClean /\ out = "eof")
    /\ validateResult' = "none"
    /\ UNCHANGED <<cfgVars, metaVars, headerReader, reader, gzBase, gzSize, fileBytes,
                   ctxDone, lockHeld, gzDefer, currentEOF, sPos, sSrc,
                   numTokensBatched, tokenBodies, tokenOffsets,
                   sinkCalls, headerSeen, calls, mods, panicked, closed,
                   entryOffset, entryRecordNum, entrySize, gzCreated, contentStart,
                   contentRan, eohTok, refresh>>

\* lines 173-189: a token that is skipped or absorbed as a header line.
HeaderToken(q) ==
    /\ pc = "header"
    /\ ~ctxDone
    /\ HasToken(Source, sSrc)
    /\ q \in ReadAhead(Source, srcPos, TokenEnd(Source, sSrc))
    /\ LET tok == TokenBytes(Source, sSrc) IN
       /\ ~Decodable(tok) \/ IsHeaderLine(tok)
       /\ headerSeen' = IF Decodable(tok) THEN headerSeen \cup {TokId(sSrc)} ELSE headerSeen
    /\ Read(q)
    /\ Offset' = PosAfterToken
    /\ sPos' = PosAfterToken
    /\ sSrc' = TokenEnd(Source, sSrc)
    /\ validateResult' = "none"
    /\ UNCHANGED <<cfgVars, Fingerprint, RecordNum, HeaderFinalized, FileType,
                   file, headerReader, reader, gzBase, gzSize, envVars,
                   pc, ctxDone, lockHeld, gzDefer, currentEOF,
                   numTokensBatched, tokenBodies, tokenOffsets,
                   sinkCalls, calls, mods, panicked, closed,
                   entryOffset, entryRecordNum, entrySize, gzCreated, contentStart,
                   contentRan, callClean, eohTok, refresh>>

\* Where the byte source stands after r.file.Seek(r.Offset, 0), line 200: the
\* file is repositioned; a gzip reader over its own section reader is not.
PosAfterHeaderSeek(kind, off, q) == IF kind = "file" THEN off ELSE q

\* A finalization that keeps the header sub-pipeline attached.
headerReaderKept == TRUE

\* r.headerReader after the finalization, line 196: nil.
headerReaderAfterFinalize == FALSE

\* lines 180-185 and 192-205: the token is the end of the header.
HeaderEnd(q, seekOK) ==
    /\ pc = "header"
    /\ ~ctxDone
    /\ HasToken(Source, sSrc)
    /\ q \in ReadAhead(Source, srcPos, TokenEnd(Source, sSrc))
    /\ LET tok == TokenBytes(Source, sSrc) IN Decodable(tok) /\ ~IsHeaderLine(tok)
    /\ needsUpdateFingerprint' =
           needsUpdateAfterRead(needsUpdateFingerprint, Len(Fingerprint), q - srcPos)
    /\ eohTok' = TokId(sSrc)
    /\ headerReader' = headerReaderAfterFinalize
    /\ HeaderFinalized' = TRUE
    /\ IF seekOK
       THEN /\ srcPos' = PosAfterHeaderSeek(reader, Offset, q)
            /\ StartContents(Offset, srcPos')
       ELSE /\ srcPos' = q
            /\ pc' = "exit"
            /\ sPos' = PosAfterToken
            /\ sSrc' = TokenEnd(Source, sSrc)
            /\ UNCHANGED <<numTokensBatched, tokenBodies, tokenOffsets, contentStart, contentRan>>
    /\ validateResult' = "none"
    /\ UNCHANGED <<cfgVars, Fingerprint, Offset, RecordNum, FileType,
                   file, reader, gzBase, gzSize, envVars,
                   ctxDone, lockHeld, gzDefer, currentEOF,
                   sinkCalls, headerSeen, calls, mods, panicked, closed,
                   entryOffset, entryRecordNum, entrySize, gzCreated, callClean, refresh>>

\* ------------------------------------------------------------ readContents
\* r.emitFunc(ctx, tokenBodies[:n], r.FileAttributes, r.RecordNum, tokenOffsets)
\* ok: the sink returned no error.
SinkCall(bodies, recordNum, offsets, ok) ==
    [bodies |-> bodies, recordNum |-> recordNum, offsets |-> offsets, call |-> calls,
     ok |-> ok]

\* The token offsets handed to the sink, lines 244 and 265.
EmitOffsets(offsets, n) == offsets

\* A flush guard that fires one token early.
FlushNeededEarly(batchSize, n) == batchSize > 0 /\ n >= batchSize - 1

\* The flush guard, line 264.
FlushNeeded(batchSize, n) == batchSize > 0 /\ n >= batchSize

\* lines 229-233
ContentCancel ==
    /\ pc = "content"
    /\ ctxDone
    /\ pc' = "exit"
    /\ callClean' = FALSE
    /\ validateResult' = "none"
    /\ UNCHANGED <<cfgVars, metaVars, readerVars, envVars,
                   ctxDone, lockHeld, gzDefer, currentEOF, sPos, sSrc,
                   numTokensBatched, tokenBodies, tokenOffsets,
                   sinkCalls, headerSeen, calls, mods, panicked, closed,
                   entryOffset, entryRecordNum, entrySize, gzCreated, contentStart,
                   contentRan, eohTok, refresh>>

\* A final flush that leaves Offset where it was.
OffsetKeptAfterFinalFlush(off, n, pos) == off

\* Offset after the flush at the end of the scan, lines 243-249.
OffsetAfterFinalFlush(off, n, pos) == IF n > 0 THEN pos ELSE off

\* lines 235-251: the scan yields no token.
ContentScanEnd(out, removeOK, sinkOK) ==
    /\ pc = "content"
    /\ ~ctxDone
    /\ out = "eof" => ~HasToken(Source, sSrc)
    /\ IF out = "eof" THEN ReadToEOF ELSE Read(srcPos)
    /\ IF out = "eof" /\ deleteAtEOF
       THEN Delete(removeOK)
       ELSE UNCHANGED <<file, fileExists>>
    /\ sinkCalls' =
           IF numTokensBatched > 0
           THEN Append(sinkCalls,
                       SinkCall(SubSeq(tokenBodies, 1, numTokensBatched), RecordNum,
                                EmitOffsets(tokenOffsets, numTokensBatched), sinkOK))
           ELSE sinkCalls
    /\ Offset' = OffsetAfterFinalFlush(Offset, numTokensBatched, sPos)
    /\ pc' = "exit"
    /\ callClean' = (callClean /\ out = "eof")
    /\ validateResult' = "none"
    /\ UNCHANGED <<cfgVars, Fingerprint, RecordNum, HeaderFinalized, FileType,
                   headerReader, reader, gzBase, gzSize, fileBytes,
                   ctxDone, lockHeld, gzDefer, currentEOF, sPos, sSrc,
                   numTokensBatched, tokenBodies, tokenOffsets,
                   headerSeen, calls, mods, panicked, closed,
                   entryOffset, entryRecordNum, entrySize, gzCreated, contentStart,
                   contentRan, eohTok, refresh>>

\* A flush that does not move Offset when the sink returned an error.
OffsetKeptOnSinkError(off, pos, ok) == IF ok THEN pos ELSE off

\* Offset after a size-triggered flush, lines 265-269: the error of the sink
\* is logged and nothing else.
OffsetAfterFlush(off, pos, ok) == pos

\* r.RecordNum after a decoded token, line 263.
RecordNumAfterToken(n) == n + 1

\* lines 253-270: a token is scanned.  When the token-bodies buffer has no
\* element numTokensBatched, the index of line 254 is out of range and the
\* goroutine panics; the deferred functions of ReadToEnd still run.
ContentToken(q, sinkOK) ==
    /\ pc = "content"
    /\ ~ctxDone
    /\ HasToken(Source, sSrc)
    /\ q \in ReadAhead(Source, srcPos, TokenEnd(Source, sSrc))
    /\ Read(q)
    /\ IF numTokensBatched >= Len(tokenBodies)
       THEN /\ panicked' = TRUE
            /\ pc' = "exit"
            /\ callClean' = FALSE
            /\ UNCHANGED <<Offset, RecordNum, sPos, sSrc, numTokensBatched,
                           tokenBodies, tokenOffsets, sinkCalls>>
       ELSE
       /\ UNCHANGED <<panicked, pc, callClean>>
       /\ sPos' = PosAfterToken
       /\ sSrc' = TokenEnd(Source, sSrc)
       /\ LET pos == PosAfterToken
              bodies1 == [tokenBodies EXCEPT ![numTokensBatched + 1] = TokId(sSrc)]
              offsets1 == [tokenOffsets EXCEPT ![numTokensBatched + 2] = pos]
              n1 == numTokensBatched + 1
          IN  IF ~Decodable(TokenBytes(Source, sSrc))
              THEN \* lines 256-260
                   /\ Offset' = pos
                   /\ tokenBodies' = bodies1
                   /\ tokenOffsets' = offsets1
                   /\ UNCHANGED <<numTokensBatched, RecordNum, sinkCalls>>
              ELSE /\ RecordNum' = RecordNumAfterToken(RecordNum)
                   /\ tokenBodies' = bodies1
                   /\ IF FlushNeeded(maxBatchSize, n1)
                      THEN /\ sinkCalls' =
                                  Append(sinkCalls,
                                         SinkCall(SubSeq(bodies1, 1, n1), RecordNum',
                                                  EmitOffsets(offsets1, n1), sinkOK))
                           /\ numTokensBatched' = 0
                           /\ Offset' = OffsetAfterFlush(Offset, pos, sinkOK)
                           /\ tokenOffsets' = [offsets1 EXCEPT ![1] = pos]
                      ELSE /\ numTokensBatched' = n1
                           /\ tokenOffsets' = offsets1
                           /\ UNCHANGED <<Offset, sinkCalls>>
    /\ validateResult' = "none"
    /\ UNCHANGED <<cfgVars, Fingerprint, HeaderFinalized, FileType,
                   file, headerReader, reader, gzBase, gzSize, envVars,
                   ctxDone, lockHeld, gzDefer, currentEOF,
                   headerSeen, calls, mods, closed,
                   entryOffset, entryRecordNum, entrySize, gzCreated, contentStart,
                   contentRan, eohTok, refresh>>

\* A return on which the deferred assignment to Offset does not run.
OffsetAtExitNoDefer(off, deferred, eof) == off

\* Offset once the deferred function of lines 81-83 / 93-95 has run.
OffsetAtExit(off, deferred, eof) == IF deferred THEN eof ELSE off

\* ReadToEnd returns: the deferred functions of lines 108-112, 81-83 and 70.
\* fpErr: fingerprint.NewFromFile failed.
ReadToEndExit(fpErr) ==
    /\ pc = "exit"
    /\ Fingerprint' =
           IF needsUpdateFingerprint
           THEN updateFingerprint(Fingerprint, file, fpErr, fileBytes)
           ELSE Fingerprint
    /\ needsUpdateFingerprint' = FALSE
    /\ refresh' = IF ~needsUpdateFingerprint THEN "none"
                  ELSE IF ~file \/ fpErr THEN "failed"
                  ELSE IF Fingerprint' = NewFromFile(fileBytes) THEN "accepted"
                  ELSE "rejected"
    /\ Offset' = OffsetAtExit(Offset, gzDefer, currentEOF)
    /\ ResetCall
    /\ lockHeld' = lockAfterReturn(lockHeld, FALSE)
    /\ pc' = IF panicked THEN "crashed" ELSE "idle"
    /\ validateResult' = "none"
    /\ UNCHANGED <<cfgVars, RecordNum, HeaderFinalized, FileType,
                   file, headerReader, reader, gzBase, gzSize, srcPos, envVars,
                   sinkCalls, headerSeen, calls, mods, panicked, closed,
                   entryOffset, entryRecordNum, entrySize, gzCreated, contentStart,
                   contentRan, callClean, eohTok>>

\* ------------------------------------------------------------ other operations
\* ctx is cancelled while ReadToEnd runs.
Cancel ==
    /\ pc \in {"header", "content"}
    /\ ~ctxDone
    /\ ctxDone' = TRUE
    /\ UNCHANGED <<cfgVars, metaVars, readerVars, envVars,
                   pc, lockHeld, gzDefer, currentEOF, sPos, sSrc,
                   numTokensBatched, tokenBodies, tokenOffsets, histVars>>

\* A Validate that only looks at the handle.
ValidateHandleOnly(open, err, bytes, fp) ==
    IF ~open THEN FALSE
    ELSE IF err THEN FALSE
    ELSE TRUE

\* (r *Reader) Validate, lines 323-335.  err: fingerprint.NewFromFile failed.
Validate(open, err, bytes, fp) ==
    IF ~open THEN FALSE
    ELSE IF err THEN FALSE
    ELSE IF StartsWith(NewFromFile(bytes), fp) THEN TRUE
    ELSE FALSE

CallValidate(err) ==
    /\ pc = "idle"
    /\ validateResult = "none"
    /\ validateResult' = IF Validate(file, err, fileBytes, Fingerprint) THEN "true" ELSE "false"
    /\ UNCHANGED <<cfgVars, metaVars, readerVars, callVars, envVars,
                   sinkCalls, headerSeen, calls, mods, panicked, closed,
                   entryOffset, entryRecordNum, entrySize, gzCreated, contentStart,
                   contentRan, callClean, eohTok, refresh>>

\* (r *Reader) Close, lines 283-288.
Close ==
    /\ pc = "idle"
    /\ ~closed
    /\ file' = FALSE
    /\ closed' = TRUE
    /\ validateResult' = "none"
    /\ UNCHANGED <<cfgVars, metaVars, headerReader, needsUpdateFingerprint, reader, gzBase, gzSize,
                   srcPos, callVars, envVars,
                   sinkCalls, headerSeen, calls, mods, panicked,
                   entryOffset, entryRecordNum, entrySize, gzCreated, contentStart,
                   contentRan, callClean, eohTok, refresh>>

\* ------------------------------------------------------------ environment
\* What a writer appends at once: a line, or compressed payload.
AppendSet ==
    IF FileType = ".gz" THEN {<<A>>, <<GZ, A>>} ELSE TokenSet

EnvUnchanged ==
    UNCHANGED <<cfgVars, metaVars, readerVars, callVars, fileExists,
                sinkCalls, headerSeen, calls, panicked, closed,
                entryOffset, entryRecordNum, entrySize, gzCreated, contentStart,
                   contentRan, eohTok, refresh>>

\* Another process appends to the file.
AppendFile(t) ==
    /\ pc # "crashed"
    /\ fileExists
    /\ mods < MaxMods
    /\ mods' = mods + 1
    /\ fileBytes' = fileBytes \o t
    /\ callClean' = (callClean /\ pc = "idle")
    /\ validateResult' = "none"
    /\ EnvUnchanged

\* Another process truncates the file to n bytes.
TruncateFile(n) ==
    /\ pc # "crashed"
    /\ fileExists
    /\ mods < MaxMods
    /\ n < Len(fileBytes)
    /\ mods' = mods + 1
    /\ fileBytes' = SubSeq(fileBytes, 1, n)
    /\ callClean' = (callClean /\ pc = "idle")
    /\ validateResult' = "none"
    /\ EnvUnchanged

\* The steps of ReadToEnd and the cancellation of its context.
NextReadToEnd ==
    \/ \E lockOK, statOK, seekOK \in BOOLEAN : ReadToEndBegin(lockOK, statOK, seekOK)
    \/ HeaderCancel
    \/ \E out \in {"eof", "err"}, removeOK \in BOOLEAN : HeaderScanEnd(out, removeOK)
    \/ \E q \in 0..Len(Source) : HeaderToken(q)
    \/ \E q \in 0..Len(Source), seekOK \in BOOLEAN : HeaderEnd(q, seekOK)
    \/ ContentCancel
    \/ \E out \in {"eof", "err"}, removeOK, sinkOK \in BOOLEAN :
           ContentScanEnd(out, removeOK, sinkOK)
    \/ \E q \in 0..Len(Source), sinkOK \in BOOLEAN : ContentToken(q, sinkOK)
    \/ \E fpErr \in BOOLEAN : ReadToEndExit(fpErr)
    \/ Cancel

\* The other operations of the Reader.
NextReader ==
    \/ \E err \in BOOLEAN : CallValidate(err)
    \/ Close

\* The writers of the file.
NextEnv ==
    \/ \E t \in AppendSet : AppendFile(t)
    \/ \E n \in 0..Len(fileBytes) : TruncateFile(n)

Next == NextReadToEnd \/ NextReader \/ NextEnv

\* A Reader without file locking.
InitNoLock == Init /\ ~acquireFSLock

\* A Reader without file locking and without delete-at-EOF, with the largest
\* batch size.
InitPlain == InitNoLock /\ ~deleteAtEOF /\ maxBatchSize = MaxBatch

\* A Reader with file locking.
InitLocked == Init /\ acquireFSLock

\* All operations, over a file that other processes append to and truncate.
Spec == InitPlain /\ [][Next]_vars

\* ReadToEnd over a file that other processes append to and truncate.
SpecModified == InitPlain /\ [][NextReadToEnd \/ NextEnv]_vars

\* ReadToEnd over a file that is not modified.
SpecReader == InitNoLock /\ [][NextReadToEnd]_vars

\* ReadToEnd with file locking, over a file that is not modified.
SpecLocked == InitLocked /\ [][NextReadToEnd]_vars

TypeOK ==
    /\ Offset \in Nat
    /\ RecordNum \in Nat
    /\ pc \in {"idle", "header", "content", "exit", "crashed"}
    /\ numTokensBatched \in 0..MaxBatch

\* ------------------------------------------------------------ properties
\* The sink calls made by the current (or last) ReadToEnd call.
ThisCallSinkCalls == SelectSeq(sinkCalls, LAMBDA c : c.call = calls)

\* The start positions of the decodable tokens of src from position p on.
RECURSIVE DecodableFrom(_, _)
DecodableFrom(src, p) ==
    IF ~HasToken(src, p) THEN <<>>
    ELSE (IF Decodable(TokenBytes(src, p)) THEN <<p>> ELSE <<>>)
             \o DecodableFrom(src, TokenEnd(src, p))

\* seq cut into consecutive pieces of n elements, the last one shorter.
RECURSIVE Chunks(_, _)
Chunks(seq, n) ==
    IF Len(seq) = 0 THEN <<>>
    ELSE IF Len(seq) <= n THEN <<seq>>
    ELSE <<SubSeq(seq, 1, n)>> \o Chunks(SubSeq(seq, n + 1, Len(seq)), n)

\* The number of token bodies in the first k of the sink calls cs.
RECURSIVE Delivered(_, _)
Delivered(cs, k) == IF k = 0 THEN 0 ELSE Delivered(cs, k - 1) + Len(cs[k].bodies)

\* A ReadToEnd call has returned whose content phase ran to the end of the
\* stream: no cancellation, no scan error, no panic.
CleanContentCall == pc = "idle" /\ contentRan /\ callClean

RECURSIVE AllBodies(_)
AllBodies(cs) == IF cs = <<>> THEN <<>> ELSE cs[1].bodies \o AllBodies(Tail(cs))

NoDuplicates(seq) == \A i, j \in 1..Len(seq) : i # j => seq[i] # seq[j]

\* C2: over any sequence of ReadToEnd calls on an uncompressed file that is
\* not modified, no token is delivered to the sink twice.
C2_NoTokenTwice == ~GzipMode => NoDuplicates(AllBodies(sinkCalls))

\* Two ReadToEnd calls on an uncompressed file have each delivered a token.
C2_Witness ==
    /\ ~GzipMode
    /\ pc = "idle"
    /\ \E i, j \in 1..Len(sinkCalls) : sinkCalls[i].call = 1 /\ sinkCalls[j].call = 2

\* No header sub-pipeline was configured for this Reader.
NoHeaderConfigured == ~headerReader /\ ~HeaderFinalized

\* C3: on an uncompressed file that is not modified, once a ReadToEnd call has
\* run to the end of the file without cancellation, the tokens delivered over
\* all calls are the file's decodable tokens in file order, and Offset is the
\* file size.
C3_AllDeliveredAtEOF ==
    (CleanContentCall /\ ~GzipMode /\ NoHeaderConfigured) =>
        LET want == DecodableFrom(fileBytes, 0) IN
        /\ AllBodies(sinkCalls) = [i \in 1..Len(want) |-> <<0, want[i]>>]
        /\ Offset = Len(fileBytes)

\* The elements of a sequence.
Range(seq) == {seq[i] : i \in 1..Len(seq)}

\* C4: in every compression mode, no token absorbed by the header pipeline is
\* passed to the content sink, and the token that ends the header is the first
\* token the content sink receives.
C4_HeaderBoundary ==
    /\ headerSeen \cap Range(AllBodies(sinkCalls)) = {}
    /\ (eohTok # <<>> /\ sinkCalls # <<>>) => sinkCalls[1].bodies[1] = eohTok

\* ReadToEnd has returned (or panicked).
Returned == pc \in {"idle", "crashed"} /\ calls > 0

\* C5: in gzip mode, when the gzip reader was created, Offset at the return of
\* ReadToEnd is the raw file size observed at the start of that call, however
\* the call ended and however much of the decompressed stream was scanned.
C5_GzipOffsetIsRawSize == (Returned /\ gzCreated) => Offset = entrySize

\* A gzip call has returned that delivered a token whose end position in the
\* decompressed stream lies beyond the raw file size.
C5_Witness ==
    /\ Returned
    /\ gzCreated
    /\ \E i \in 1..Len(sinkCalls) :
           /\ sinkCalls[i].call = calls
           /\ sinkCalls[i].offsets[Len(sinkCalls[i].bodies) + 1] > Offset

\* C6: the stored Fingerprint, when it is not empty, is only ever replaced by
\* a value that starts with it; a re-derived fingerprint that does not is
\* discarded.
C6_FingerprintOnlyExtends ==
    [][(Len(Fingerprint) > 0 /\ Fingerprint' # Fingerprint)
           => StartsWith(Fingerprint', Fingerprint)]_vars

\* ReadToEnd has returned after discarding a re-derived fingerprint that does
\* not start with the stored, non-empty one.
C6_Witness ==
    /\ pc = "idle"
    /\ refresh = "rejected"
    /\ Len(Fingerprint) > 0
    /\ ~StartsWith(NewFromFile(fileBytes), Fingerprint)

\* C7: when the file has been truncated below the recorded Offset, Validate
\* returns false.
C7_TruncationBelowOffsetDetected ==
    (pc = "idle" /\ Len(fileBytes) < Offset) => validateResult # "true"

\* C7 as amended: when the file has been truncated below the length of the
\* stored Fingerprint, Validate returns false and no step changes the stored
\* Fingerprint; Validate returns false when the handle has been released, and
\* it leaves the Metadata as it is.
C7_TruncationBelowFingerprintDetected ==
    [][/\ validateResult' = "true" => (file' /\ Len(fileBytes') >= Len(Fingerprint'))
       /\ Len(fileBytes) < Len(Fingerprint) => Fingerprint' = Fingerprint
       /\ validateResult' # "none" => metaVars' = metaVars]_vars

\* Validate has answered false on an open file that is shorter than the stored
\* Fingerprint, after a ReadToEnd call that discarded the re-derived
\* fingerprint.
C7_Witness ==
    /\ validateResult = "false"
    /\ file
    /\ Len(fileBytes) < Len(Fingerprint)
    /\ refresh = "rejected"

\* C8: whenever ReadToEnd has returned, RecordNum is the number of token
\* bodies passed to the sink in all sink calls so far, and the record counts
\* of successive sink calls increase strictly.
C8_RecordNumCountsDelivered ==
    /\ pc = "idle" => RecordNum = Len(AllBodies(sinkCalls))
    /\ \A i \in 1..Len(sinkCalls) - 1 : sinkCalls[i].recordNum < sinkCalls[i + 1].recordNum

\* C9: no step assigns Offset a value smaller than its current value.
C9_OffsetNeverDecreases == [][Offset' >= Offset]_vars

\* C9 as amended: no step of the header phase or the content phase lowers
\* Offset, and in an uncompressed file no step at all; the gzip end-of-call
\* assignment may lower the Offset the phases left, but never below the Offset
\* at the entry of that call.
C9_OffsetNeverBelowEntry ==
    [][IF pc = "exit" /\ gzDefer THEN Offset' >= entryOffset ELSE Offset' >= Offset]_vars

\* A gzip call has returned with Offset advanced over its value at entry,
\* after a sink call whose last token offset was larger than the raw file size
\* that Offset now holds.
C9_Witness ==
    /\ pc = "idle"
    /\ gzCreated
    /\ Offset > entryOffset
    /\ \E i \in 1..Len(sinkCalls) : \E k \in 1..Len(sinkCalls[i].offsets) :
           sinkCalls[i].call = calls /\ sinkCalls[i].offsets[k] > Offset

\* C10: every sink call receives as many token offsets as token bodies plus
\* one; the first is the offset before the batch and, in an uncompressed file,
\* the one after it for each token is the offset at which that token ends.
C10_OffsetsLength ==
    \A i \in 1..Len(sinkCalls) :
        LET c == sinkCalls[i] IN
        /\ Len(c.offsets) = Len(c.bodies) + 1
        /\ ~GzipMode =>
               /\ c.offsets[1] <= c.bodies[1][2]
               /\ \A k \in 1..Len(c.bodies) :
                      c.offsets[k + 1] = TokenEnd(fileBytes, c.bodies[k][2])

\* C11: with delete-at-EOF, a step of the content phase removes the file only
\* when the scan reached the end of the stream with no scan error, no observed
\* cancellation and an empty pending batch, and a removal leaves the Reader
\* without file handle.
C11_DeleteOnlyWithEmptyBatch ==
    [][(pc = "content" /\ fileExists /\ ~fileExists')
           => /\ deleteAtEOF
              /\ ~ctxDone
              /\ ~HasToken(Source, sSrc)
              /\ callClean'
              /\ numTokensBatched = 0
              /\ ~file']_vars

\* C12: HeaderFinalized never goes back to false; while it is true the Reader
\* has no header sub-pipeline, the header phase is not entered and no token is
\* handed to the header sub-pipeline.
C12_HeaderFinalizedLatch ==
    [][/\ HeaderFinalized' => ~headerReader'
       /\ HeaderFinalized =>
              /\ HeaderFinalized'
              /\ pc' # "header"
              /\ headerSeen' = headerSeen
              /\ eohTok' = eohTok]_vars

\* The header was finalized in the first ReadToEnd call, which delivered a
\* token, and the content phase of the second call is about to scan a line
\* that the header sub-pipeline would take for a header line.
C12_Witness ==
    /\ HeaderFinalized
    /\ eohTok # <<>>
    /\ calls = 2
    /\ pc = "content"
    /\ \E i \in 1..Len(sinkCalls) : sinkCalls[i].call = 1
    /\ HasToken(Source, sSrc)
    /\ IsHeaderLine(TokenBytes(Source, sSrc))

\* C13: on an uncompressed file, at every return of ReadToEnd every decodable
\* token that ends at or before Offset, and that the header sub-pipeline did
\* not absorb, has been passed to the sink.
C13_NoUndeliveredTokenBelowOffset ==
    (pc = "idle" /\ ~GzipMode) =>
        \A p \in Range(DecodableFrom(fileBytes, 0)) :
            (TokenEnd(fileBytes, p) <= Offset /\ <<0, p>> \notin headerSeen)
                => <<0, p>> \in Range(AllBodies(sinkCalls))

\* C14: whenever the content phase ends with at least one unflushed token in
\* the batch, by end of stream, scan error or observed cancellation, that step
\* calls the sink with the pending tokens.
C14_PendingBatchFlushedAtEnd ==
    [][(pc = "content" /\ pc' = "exit" /\ numTokensBatched > 0)
           => /\ Len(sinkCalls') = Len(sinkCalls) + 1
              /\ sinkCalls'[Len(sinkCalls')].bodies
                     = SubSeq(tokenBodies, 1, numTokensBatched)]_vars

\* The last element of a non-empty sequence.
Last(seq) == seq[Len(seq)]

C16_AbortLeavesMetadata ==
    [][(pc = "idle" /\ calls' = calls + 1 /\ pc' = "idle")
           => /\ sinkCalls' = sinkCalls
              /\ Offset' = Offset
              /\ RecordNum' = RecordNum
              /\ Fingerprint' = Fingerprint
              /\ HeaderFinalized' = HeaderFinalized]_vars

HeaderPhaseStopped == headerReader /\ ~HeaderFinalized /\ ~contentRan

\* C18: when the header phase ends by cancellation or by a scan that yields no
\* token, ReadToEnd returns without content phase: no sink call in that call,
\* HeaderFinalized false, the header sub-pipeline attached, and Offset, at the
\* return too, just past the last header token consumed; the next call that
\* gets as far as scanning resumes the header phase at that Offset.
C18_HeaderStopResumesAtOffset ==
    [][/\ (pc = "header" /\ pc' # "header" /\ ~HeaderFinalized')
              => /\ pc' = "exit"
                 /\ headerReader'
                 /\ ThisCallSinkCalls' = <<>>
                 /\ Offset' = sPos
       /\ (pc = "exit" /\ HeaderPhaseStopped)
              => /\ HeaderPhaseStopped'
                 /\ ThisCallSinkCalls' = <<>>
                 /\ Offset' = Offset
       /\ (pc = "idle" /\ calls > 0 /\ HeaderPhaseStopped /\ pc' # "idle")
              => /\ pc' = "header"
                 /\ sPos' = Offset]_vars

\* C18 as amended: the same, except that in gzip mode Offset at the return is
\* the raw file size taken at the start of the call, and it is there that the
\* next call resumes the header phase; a call on a Reader without file handle
\* is aborted before its first scan.
C18_HeaderStopResumesAtRecordedOffset ==
    [][/\ (pc = "header" /\ pc' # "header" /\ ~HeaderFinalized')
              => /\ pc' = "exit"
                 /\ headerReader'
                 /\ ThisCallSinkCalls' = <<>>
                 /\ Offset' = sPos
       /\ (pc = "exit" /\ HeaderPhaseStopped)
              => /\ HeaderPhaseStopped'
                 /\ ThisCallSinkCalls' = <<>>
                 /\ Offset' = IF GzipMode THEN entrySize ELSE Offset
       /\ (pc = "idle" /\ calls > 0 /\ HeaderPhaseStopped /\ pc' # "idle")
              => /\ pc' = "header"
                 /\ sPos' = Offset
       /\ (pc = "idle" /\ ~file /\ calls' = calls + 1) => pc' = "idle"]_vars

\* The second ReadToEnd call is in the header phase, at the Offset that the
\* first call left behind a header line, and no sink call has been made.
C18_Witness ==
    /\ pc = "header"
    /\ calls = 2
    /\ headerSeen # {}
    /\ entryOffset > 0
    /\ sPos = Offset
    /\ Offset = entryOffset
    /\ sinkCalls = <<>>

\* C19: the stored Fingerprint changes only in the step in which ReadToEnd
\* returns, and only when a refresh was asked for; a refresh is asked for only
\* by a read of the header or content phase that returned data while the
\* stored Fingerprint was shorter than the fingerprint size; and no request
\* is left over when ReadToEnd has returned.  So a full-size Fingerprint and
\* a call that read no data leave the Fingerprint as it is.
C19_RefreshOncePerCallWhenShort ==
    [][/\ Fingerprint' # Fingerprint
              => /\ pc = "exit"
                 /\ needsUpdateFingerprint
                 /\ Len(Fingerprint) < FingerprintSize
       /\ (needsUpdateFingerprint' /\ ~needsUpdateFingerprint)
              => /\ pc \in {"header", "content"}
                 /\ srcPos < Len(Source)
                 /\ Len(Fingerprint) < FingerprintSize
       /\ pc' \in {"idle", "crashed"} => ~needsUpdateFingerprint'
       /\ refresh' # refresh => (pc = "exit" \/ refresh' = "none")]_vars

\* The second ReadToEnd call has re-derived the fingerprint at its return and
\* adopted it, and the stored Fingerprint now has the full size.
C19_Witness ==
    /\ pc = "idle"
    /\ calls = 2
    /\ refresh = "accepted"
    /\ Len(Fingerprint) = FingerprintSize

\* C20: for every maxBatchSize >= 0, whenever the content phase writes a
\* scanned token, the number of pending tokens is an index of the token-bodies
\* buffer and the next one an index of the token-offsets buffer, and after a
\* size-triggered flush no token is pending.
C20_TokenStoredInsideBuffers ==
    [][(pc = "content" /\ (sSrc' # sSrc \/ panicked'))
           => /\ numTokensBatched < Len(tokenBodies)
              /\ numTokensBatched + 2 <= Len(tokenOffsets)
              /\ Len(sinkCalls') > Len(sinkCalls) => numTokensBatched' = 0]_vars

====
